---------------------------- MODULE Spec2Model ----------------------------
(***************************************************************************)
(* A model of the password evaluation engine of config-service:            *)
(*   - PasswordStrengthChecker.CheckStrength (the strength scorer) and the *)
(*     helpers of package models it calls, as operators over passwords;    *)
(*   - BreachService (CheckPasswordBreach, its cache, its periodic cache   *)
(*     cleanup and the HIBP range client) as a state machine with several  *)
(*     concurrent request goroutines.                                      *)
(*                                                                         *)
(* A Go string is modelled as a sequence of one-character strings.  The    *)
(* model is restricted to ASCII text, where len(s) (a byte count) and the  *)
(* number of runes coincide.                                               *)
(***************************************************************************)
EXTENDS Integers, Sequences, FiniteSets, TLC

VARIABLES
    strengthPassword,   \* the argument of the CheckStrength call
    strengthResponse,   \* the PasswordResponse it returned (NoResponse before the call)
    strengthFirst,      \* what the caller's earlier call with that password returned
    conversion,         \* what this build's int(float64) yields for a value out of range
    handled,            \* what PasswordCheckHandler answered to the request at hand
    uiValue,            \* password app: the value of the input field
    inputTimer,         \* PasswordInputComponent.debounceTimer: the value its pending timer will dispatch
    strengthDebounce,   \* debouncedPasswordCheck: [pending, timeoutId, inflight]
    breachDebounce,     \* debouncedBreachCheck: [pending, timeoutId, inflight]
    meter,              \* what the strength meter shows
    alert,              \* what the breach alert shows
    env,                \* who calls the breach service and what the remote service may answer
    enabled,            \* BreachService.enabled
    apiEndpoint,        \* BreachService.apiEndpoint
    cache,              \* BreachService.cache: full digest -> BreachInfo
    cacheMutex,         \* BreachService.cacheMutex: [readers, writer]
    cleaner,            \* position of the startCacheCleanup goroutine
    today,              \* the date time.Now() falls on
    pc,                 \* position of each request goroutine inside CheckPasswordBreach
    pw,                 \* its password argument
    ret,                \* its cachedResult / result while running, its return values when done
    calls,              \* how often its current call has invoked the HTTP client
    req,                \* the URL of the request it sent
    resp,               \* what the HTTP client got back for it
    prev                \* its previous completed call, as the caller remembers it

strengthVars == << strengthPassword, strengthResponse, strengthFirst, conversion >>

handlerVars == << handled >>

uiVars == << uiValue, inputTimer, strengthDebounce, breachDebounce, meter, alert >>

configVars == << env, enabled, apiEndpoint >>

breachVars == << cache, cacheMutex, cleaner, today, pc, pw, ret, calls, req, resp, prev >>

vars == << strengthVars, handlerVars, uiVars, configVars, breachVars >>

(***************************************************************************)
(* Characters                                                              *)
(***************************************************************************)
Uppers ==
    <<"A","B","C","D","E","F","G","H","I","J","K","L","M","N","O","P","Q","R","S","T","U","V","W","X","Y","Z">>

Lowers ==
    <<"a","b","c","d","e","f","g","h","i","j","k","l","m","n","o","p","q","r","s","t","u","v","w","x","y","z">>

DigitChars ==
    <<"0","1","2","3","4","5","6","7","8","9">>

\* the ASCII punctuation and symbol characters (unicode.IsPunct or
\* unicode.IsSymbol) that occur in the model's texts
SpecialChars ==
    {"!","#","$","%","&","*","+","-",".","/",":",";","<","=",">","?","@","^","_","~"}

Range(s) == { s[i] : i \in 1..Len(s) }

IndexOf(s, c) == CHOOSE i \in 1..Len(s) : s[i] = c

IsUpper(c) == c \in Range(Uppers)

IsLower(c) == c \in Range(Lowers)

IsDigit(c) == c \in Range(DigitChars)

IsSpecial(c) == c \in SpecialChars

\* unicode.ToLower / strings.ToLower on one character
ToLowerChar(c) == IF IsUpper(c) THEN Lowers[IndexOf(Uppers, c)] ELSE c

\* unicode.ToUpper / strings.ToUpper on one character
ToUpperChar(c) == IF IsLower(c) THEN Uppers[IndexOf(Lowers, c)] ELSE c

ToLower(s) == [ i \in 1..Len(s) |-> ToLowerChar(s[i]) ]

ToUpper(s) == [ i \in 1..Len(s) |-> ToUpperChar(s[i]) ]

\* strings.Contains(s, sub)
Contains(s, sub) ==
    \E i \in 0..(Len(s) - Len(sub)) : SubSeq(s, i + 1, i + Len(sub)) = sub

(***************************************************************************)
(* Go's int.  The model fixes the width of a 32-bit build; on a 64-bit     *)
(* build the same wrap-around happens at 2^63.  Addition wraps.            *)
(***************************************************************************)
IntMax == 2147483647

IntMin == (-IntMax) - 1

AddInt(a, b) ==
    IF b >= 0
      THEN IF a > IntMax - b THEN (a + IntMin) + (b + IntMin) ELSE a + b
      ELSE IF a < IntMin - b THEN (a - IntMin) + (b - IntMin) ELSE a + b

SubInt(a, b) == AddInt(a, -b)

\* int(f) for a float64 f that no int can represent (here f = -Inf): the Go
\* specification leaves the result to the implementation.  The outcomes kept
\* are the saturating ones and zero.
FloatToIntOutOfRange == { IntMin, 0, IntMax }

(***************************************************************************)
(* package models: requirements, category, common patterns                 *)
(***************************************************************************)
StrengthWeak == "weak"

StrengthMedium == "medium"

StrengthStrong == "strong"

StrengthVeryStrong == "very_strong"

hasUpper(password) == \E i \in 1..Len(password) : IsUpper(password[i])

hasLower(password) == \E i \in 1..Len(password) : IsLower(password[i])

hasNumber(password) == \E i \in 1..Len(password) : IsDigit(password[i])

hasSpecial(password) == \E i \in 1..Len(password) : IsSpecial(password[i])

GetPasswordRequirements(password) ==
    [ Length       |-> Len(password) >= 8,
      Uppercase    |-> hasUpper(password),
      Lowercase    |-> hasLower(password),
      Numbers      |-> hasNumber(password),
      SpecialChars |-> hasSpecial(password) ]

GetStrengthCategory(score) ==
    IF score < 40 THEN StrengthWeak
    ELSE IF score < 60 THEN StrengthMedium
    ELSE IF score < 80 THEN StrengthStrong
    ELSE StrengthVeryStrong

keyboardPatterns ==
    { <<"q","w","e","r","t","y">>, <<"a","s","d","f">>, <<"z","x","c","v">>,
      <<"1","2","3","4","5","6">>, <<"a","b","c","d","e","f">>,
      <<"p","a","s","s","w","o","r","d">>, <<"a","d","m","i","n">>,
      <<"w","e","l","c","o","m","e">>, <<"l","o","g","i","n">> }

\* a variant that looks for the patterns without lower-casing first
HasCommonPatternCaseSensitive(password) ==
    \/ \E pattern \in keyboardPatterns : Contains(password, pattern)
    \/ \E i \in 1..(Len(password) - 2) :
          password[i] = password[i + 1] /\ password[i] = password[i + 2]

HasCommonPattern(password) ==
    \/ \E pattern \in keyboardPatterns : Contains(ToLower(password), pattern)
    \/ \E i \in 1..(Len(password) - 2) :
          password[i] = password[i + 1] /\ password[i] = password[i + 2]

(***************************************************************************)
(* package services: PasswordStrengthChecker                               *)
(***************************************************************************)
calculateLengthScore(password) ==
    LET length == Len(password)
    IN  IF length >= 16 THEN 25
        ELSE IF length >= 12 THEN 20
        ELSE IF length >= 8 THEN 15
        ELSE IF length >= 6 THEN 10
        ELSE IF length >= 4 THEN 5
        ELSE 0

calculateCharacterVarietyScore(password) ==
      (IF hasUpper(password) THEN 6 ELSE 0)
    + (IF hasLower(password) THEN 6 ELSE 0)
    + (IF hasNumber(password) THEN 6 ELSE 0)
    + (IF hasSpecial(password) THEN 6 ELSE 0)

getCharacterSetSize(password) ==
      (IF hasUpper(password) THEN 26 ELSE 0)
    + (IF hasLower(password) THEN 26 ELSE 0)
    + (IF hasNumber(password) THEN 10 ELSE 0)
    + (IF hasSpecial(password) THEN 32 ELSE 0)

sequences ==
    { <<"a","b","c","d","e","f">>, <<"b","c","d","e","f","g">>, <<"c","d","e","f","g","h">>,
      <<"d","e","f","g","h","i">>, <<"e","f","g","h","i","j">>, <<"f","g","h","i","j","k">>,
      <<"g","h","i","j","k","l">>, <<"h","i","j","k","l","m">>, <<"i","j","k","l","m","n">>,
      <<"j","k","l","m","n","o">>, <<"k","l","m","n","o","p">>, <<"l","m","n","o","p","q">>,
      <<"m","n","o","p","q","r">>, <<"n","o","p","q","r","s">>, <<"o","p","q","r","s","t">>,
      <<"p","q","r","s","t","u">>, <<"q","r","s","t","u","v">>, <<"r","s","t","u","v","w">>,
      <<"s","t","u","v","w","x">>, <<"t","u","v","w","x","y">>, <<"u","v","w","x","y","z">>,
      <<"1","2","3","4","5","6">>, <<"2","3","4","5","6","7">>, <<"3","4","5","6","7","8">>,
      <<"4","5","6","7","8","9">>, <<"5","6","7","8","9","0">>,
      <<"q","w","e","r","t","y">>, <<"a","s","d","f","g","h">>, <<"z","x","c","v","b","n">> }

hasSequentialChars(password) ==
    LET lowerPassword == ToLower(password)
    IN  \E seq \in sequences :
          /\ Len(seq) >= 4
          /\ Len(lowerPassword) >= Len(seq)
          /\ \E i \in 0..(Len(lowerPassword) - Len(seq)) :
                SubSeq(lowerPassword, i + 1, i + Len(seq)) = seq

\* a variant that starts at blocks of one character
hasRepeatedPatternsFromOne(password) ==
    \E patternLen \in 1..(Len(password) \div 2) :
      \E i \in 0..(Len(password) - patternLen * 2) :
        SubSeq(password, i + 1, i + patternLen)
          = SubSeq(password, i + patternLen + 1, i + patternLen * 2)

hasRepeatedPatterns(password) ==
    \E patternLen \in 2..(Len(password) \div 2) :
      \E i \in 0..(Len(password) - patternLen * 2) :
        SubSeq(password, i + 1, i + patternLen)
          = SubSeq(password, i + patternLen + 1, i + patternLen * 2)

calculatePatternPenalty(password) ==
      (IF HasCommonPattern(password) THEN 20 ELSE 0)
    + (IF hasSequentialChars(password) THEN 10 ELSE 0)
    + (IF hasRepeatedPatterns(password) THEN 15 ELSE 0)

RECURSIVE FloorLog2(_)
FloorLog2(n) == IF n < 2 THEN 0 ELSE 1 + FloorLog2(n \div 2)

\* int((entropy / maxEntropy) * 50) for charSetSize >= 2, where
\* entropy / maxEntropy = log2(charSetSize) / 10 whatever the length: the
\* greatest k with 2^k <= charSetSize^5, found as 10 + FloorLog2 of
\* charSetSize^5 \div 1024 (charSetSize^5 itself exceeds 32 bits).  No
\* charSetSize the checker can produce other than 32 makes 5 * log2 an
\* integer, and log2(32) is exact, so float64 rounding never changes it.
NormalizedEntropy(charSetSize) ==
    LET p4 == charSetSize * charSetSize * charSetSize * charSetSize
        q  == p4 \div 1024
        r  == p4 % 1024
    IN  10 + FloorLog2(q * charSetSize + ((r * charSetSize) \div 1024))

\* conv is what int(-Inf) yields on the build at hand
calculateEntropyScore(password, conv) ==
    LET charSetSize == getCharacterSetSize(password)
        normalizedScore ==
            IF charSetSize = 0 THEN conv ELSE NormalizedEntropy(charSetSize)
    IN  IF Len(password) = 0 THEN 0
        ELSE IF normalizedScore > 50 THEN 50
        ELSE normalizedScore

\* a variant that puts the length suggestion before the class suggestions
generateFeedbackLengthFirst(password, score) ==
    LET reqs == GetPasswordRequirements(password)
        Opt(cond, msg) == IF cond THEN << msg >> ELSE << >>
    IN  [ Warnings |->
               Opt(HasCommonPattern(password), "Password contains common patterns")
            \o Opt(hasSequentialChars(password), "Password contains sequential characters")
            \o Opt(hasRepeatedPatterns(password), "Password contains repeated patterns"),
          Suggestions |->
               Opt(HasCommonPattern(password), "Use a more unique combination of characters")
            \o Opt(hasSequentialChars(password), "Avoid keyboard patterns and sequential characters")
            \o Opt(hasRepeatedPatterns(password), "Avoid repeating character sequences")
            \o Opt(Len(password) < 12, "Use a longer password (12+ characters)")
            \o Opt(~reqs.Uppercase, "Add uppercase letters")
            \o Opt(~reqs.Lowercase, "Add lowercase letters")
            \o Opt(~reqs.Numbers, "Add numbers")
            \o Opt(~reqs.SpecialChars, "Add special characters")
            \o Opt(score < 40, "Consider using a passphrase with multiple words")
            \o Opt(score < 60, "Mix different character types more thoroughly") ]

generateFeedback(password, score) ==
    LET reqs == GetPasswordRequirements(password)
        Opt(cond, msg) == IF cond THEN << msg >> ELSE << >>
    IN  [ Warnings |->
               Opt(HasCommonPattern(password), "Password contains common patterns")
            \o Opt(hasSequentialChars(password), "Password contains sequential characters")
            \o Opt(hasRepeatedPatterns(password), "Password contains repeated patterns"),
          Suggestions |->
               Opt(HasCommonPattern(password), "Use a more unique combination of characters")
            \o Opt(hasSequentialChars(password), "Avoid keyboard patterns and sequential characters")
            \o Opt(hasRepeatedPatterns(password), "Avoid repeating character sequences")
            \o Opt(~reqs.Uppercase, "Add uppercase letters")
            \o Opt(~reqs.Lowercase, "Add lowercase letters")
            \o Opt(~reqs.Numbers, "Add numbers")
            \o Opt(~reqs.SpecialChars, "Add special characters")
            \o Opt(Len(password) < 12, "Use a longer password (12+ characters)")
            \o Opt(score < 40, "Consider using a passphrase with multiple words")
            \o Opt(score < 60, "Mix different character types more thoroughly") ]

\* a variant without the clamp
ClampScoreMissing(totalScore) == totalScore

\* a variant that consults the state of the breach service
ClampScoreByBreachCache(totalScore) ==
    IF cache # << >> \/ totalScore < 0 THEN 0
    ELSE IF totalScore > 100 THEN 100
    ELSE totalScore

\* the clamp of CheckStrength
ClampScore(totalScore) ==
    IF totalScore < 0 THEN 0
    ELSE IF totalScore > 100 THEN 100
    ELSE totalScore

CheckStrength(password, conv) ==
    LET lengthScore == calculateLengthScore(password)
        characterVarietyScore == calculateCharacterVarietyScore(password)
        patternPenalty == calculatePatternPenalty(password)
        entropyScore == calculateEntropyScore(password, conv)
        totalScore ==
            ClampScore(AddInt(SubInt(AddInt(lengthScore, characterVarietyScore),
                                     patternPenalty),
                              entropyScore))
    IN  [ Strength     |-> GetStrengthCategory(totalScore),
          Score        |-> totalScore,
          Feedback     |-> generateFeedback(password, totalScore),
          Requirements |-> GetPasswordRequirements(password) ]

(***************************************************************************)
(* Inputs of the strength scorer: passwords built from at most MaxChunks   *)
(* chunks.                                                                 *)
(***************************************************************************)
MaxChunks == 3

Chunks ==
    { <<"a">>, <<"!">>, <<" ">>,
      <<"a","a","a">>,
      <<"1","2","1","2">>,
      <<"a","b","c","d","e","f">>,
      <<"Z","x","9","#">>,
      <<"p","a","s","s","w","o","r","d">>,
      <<"M","y","S","t","r","0","n","g","!","P","a","s","s">> }

RECURSIVE Concatenations(_)
Concatenations(n) ==
    IF n = 0 THEN { << >> }
    ELSE LET shorter == Concatenations(n - 1)
         IN  shorter \cup { s \o c : s \in shorter, c \in Chunks }

\* the passwords of the tests and of the documentation
Pw123 == <<"1","2","3">>

PwPassword == <<"p","a","s","s","w","o","r","d">>

PwPassword1 == <<"P","a","s","s","w","o","r","d","1">>

PwPassword1Bang == <<"P","a","s","s","w","o","r","d","1","!">>

PwMyPassword1Bang == <<"M","y","P","a","s","s","w","o","r","d","1","!">>

PwMyStr0ngPass == <<"M","y","S","t","r","0","n","g","!","P","a","s","s">>

PwLongVariety == <<"T","h","i","s","I","s","A","V","e","r","y","L","o","n","g","P","a","s","s","w","o","r","d","W","i","t","h","L","o","t","s","O","f","C","h","a","r","a","c","t","e","r","s","A","n","d","N","u","m","b","e","r","s","1","2","3","!","@","#">>

PwVeryStrong == <<"M","y","V","3","r","y","S","t","r","0","n","g","!","P","@","s","s","w","0","r","d","W","i","t","h","N","u","m","b","e","r","s","1","2","3">>

PwAbcabc == <<"a","b","c","a","b","c">>

Pw121212 == <<"1","2","1","2","1","2">>

PwAbcdef == <<"a","b","c","d","e","f">>

PwSpaces == <<" "," "," ">>

DocumentedPasswords ==
    { Pw123, PwPassword, PwPassword1, PwPassword1Bang, PwMyPassword1Bang, PwMyStr0ngPass, PwLongVariety, PwVeryStrong, PwAbcabc, Pw121212, PwAbcdef }

\* short runs of neighbouring letters, digits and keys, upwards and downwards
PwFedcba == <<"f","e","d","c","b","a">>

Pw654321 == <<"6","5","4","3","2","1">>

RunPasswords ==
    { <<"a","b","c","d">>, <<"1","2","3","4">>, <<"q","w","e","r">>, PwFedcba, Pw654321 }

StrengthPasswords == Concatenations(MaxChunks) \cup DocumentedPasswords \cup RunPasswords

NoResponse == [ Strength |-> "none" ]

\* no answer written yet
NoHandled == [ status |-> 0 ]

(***************************************************************************)
(* package errors: BreachServiceError and its four constructors            *)
(***************************************************************************)
NewBreachServiceError(message, cause) ==
    [ Type |-> "BreachServiceError", Message |-> message, Cause |-> cause ]

ErrBreachAPIUnavailable(cause) ==
    NewBreachServiceError("breach API is unavailable", cause)

ErrBreachRateLimited(cause) ==
    NewBreachServiceError("breach API rate limit exceeded", cause)

ErrBreachTimeout(cause) ==
    NewBreachServiceError("breach API request timed out", cause)

ErrBreachInvalidResponse(cause) ==
    NewBreachServiceError("breach API returned invalid response", cause)

\* fmt.Errorf("error creating request: %w", err)
ErrorfCreatingRequest(cause) ==
    [ Type |-> "wrapError", Message |-> "error creating request", Cause |-> cause ]

\* a Go pointer or error value: Nil, or Ptr(v)
Nil == << >>

Ptr(v) == << v >>

(***************************************************************************)
(* Texts of the breach service                                             *)
(***************************************************************************)
defaultHibpAPIEndpoint ==
    <<"h","t","t","p","s",":","/","/","a","p","i",".","p","w","n","e","d","p","a","s","s","w","o","r","d","s",".","c","o","m","/","r","a","n","g","e">>

\* WithAPIEndpoint takes the configured string as it is: the default, or the
\* default read from a source that left a line feed at its end
Endpoints == { defaultHibpAPIEndpoint, defaultHibpAPIEndpoint \o <<"\n">> }

Secret1263 == <<"S","e","c","r","e","t","#","1","2","6","3">>

Secret2709 == <<"S","e","c","r","e","t","#","2","7","0","9">>

Passw0rd == <<"P","a","s","s","w","0","r","d","!">>

\* hex(sha1(password)) of the passwords of the model; the first two digests
\* share their first five characters
DefaultHashPassword(password) ==
    CASE password = Secret1263 ->
           <<"a","0","6","2","5","c","8","c","b","5","a","c","4","e","3","d","d","b","d","d","5","b","5","b","5","e","2","3","e","7","c","f","e","9","4","d","9","9","c","4">>
      [] password = Secret2709 ->
           <<"a","0","6","2","5","f","2","a","e","e","c","6","c","8","9","9","7","4","8","d","d","c","4","8","4","e","5","d","c","7","d","e","b","1","a","f","e","c","c","4">>
      [] password = Passw0rd ->
           <<"f","4","a","6","9","9","7","3","e","7","b","0","b","f","9","d","1","6","0","f","9","f","6","0","e","3","c","3","a","c","d","2","4","9","4","b","e","b","0","d">>

\* bs.HashFunc is DefaultHashPassword unless a test replaces it
HashPassword(password) == DefaultHashPassword(password)

\* a variant that sends one character too many
HashPrefixSix(sha1Hash) == SubSeq(sha1Hash, 1, 6)

\* sha1Hash[:5]
HashPrefix(sha1Hash) == SubSeq(sha1Hash, 1, 5)

\* strings.ToUpper(sha1Hash[5:])
HashSuffix(sha1Hash) == ToUpper(SubSeq(sha1Hash, 6, Len(sha1Hash)))

\* fmt.Sprintf("%s/%s", bs.apiEndpoint, hashPrefix)
RequestURL(endpoint, hashPrefix) == endpoint \o <<"/">> \o hashPrefix

ControlChars == { "\n", "\r", "\t" }

\* http.NewRequest fails when url.Parse does; url.Parse rejects a URL that
\* holds an ASCII control character
NewRequestFails(url) == \E k \in 1..Len(url) : url[k] \in ControlChars

(***************************************************************************)
(* strings.Split(line, ":"), strings.TrimSpace, strconv.Atoi               *)
(***************************************************************************)
RECURSIVE SplitColon(_)
SplitColon(line) ==
    IF \E k \in 1..Len(line) : line[k] = ":"
      THEN LET k == CHOOSE k \in 1..Len(line) :
                      line[k] = ":" /\ \A j \in 1..(k - 1) : line[j] # ":"
           IN  << SubSeq(line, 1, k - 1) >> \o SplitColon(SubSeq(line, k + 1, Len(line)))
      ELSE << line >>

WhiteSpace == { " ", "\t", "\n", "\r" }

RECURSIVE TrimSpace(_)
TrimSpace(s) ==
    IF s = << >> THEN s
    ELSE IF s[1] \in WhiteSpace THEN TrimSpace(Tail(s))
    ELSE IF s[Len(s)] \in WhiteSpace THEN TrimSpace(SubSeq(s, 1, Len(s) - 1))
    ELSE s

RECURSIVE DecimalValue(_)
DecimalValue(digits) ==
    IF digits = << >> THEN 0
    ELSE 10 * DecimalValue(SubSeq(digits, 1, Len(digits) - 1))
           + (IndexOf(DigitChars, digits[Len(digits)]) - 1)

\* strconv.Atoi on the short numerals of the model: an optional sign, then
\* one or more decimal digits
Atoi(s) ==
    LET signed == s # << >> /\ s[1] \in { "+", "-" }
        digits == IF signed THEN Tail(s) ELSE s
    IN  IF digits = << >> \/ \E k \in 1..Len(digits) : ~IsDigit(digits[k])
          THEN [ value |-> 0, err |-> TRUE ]
          ELSE [ value |-> IF signed /\ s[1] = "-" THEN -DecimalValue(digits)
                                                   ELSE DecimalValue(digits),
                 err   |-> FALSE ]

(***************************************************************************)
(* BreachService.parseHIBPResponse; a response body is the sequence of     *)
(* lines bufio.Scanner yields                                              *)
(***************************************************************************)
RECURSIVE parseHIBPResponseFrom(_, _, _)
parseHIBPResponseFrom(response, suffix, k) ==
    IF k > Len(response) THEN [ count |-> 0, found |-> FALSE ]
    ELSE LET parts == SplitColon(response[k])
         IN  IF Len(parts) # 2
               THEN parseHIBPResponseFrom(response, suffix, k + 1)
               ELSE LET hashSuffix == TrimSpace(parts[1])
                        countStr == TrimSpace(parts[2])
                    IN  IF hashSuffix = suffix
                          THEN IF Atoi(countStr).err
                                 THEN [ count |-> 0, found |-> TRUE ]
                                 ELSE [ count |-> Atoi(countStr).value, found |-> TRUE ]
                          ELSE parseHIBPResponseFrom(response, suffix, k + 1)

parseHIBPResponse(response, suffix) == parseHIBPResponseFrom(response, suffix, 1)

(***************************************************************************)
(* What httpClient.Do and io.ReadAll can yield                             *)
(***************************************************************************)
StatusOK == 200

StatusNotFound == 404

StatusTooManyRequests == 429

StatusInternalServerError == 500

StatusBadGateway == 502

StatusServiceUnavailable == 503

StatusGatewayTimeout == 504

TransportError(isTimeout) ==
    [ kind |-> "transport", timeout |-> isTimeout, status |-> 0,
      readErr |-> FALSE, body |-> << >> ]

HttpResponse(statusCode, readFails, lines) ==
    [ kind |-> "response", timeout |-> FALSE, status |-> statusCode,
      readErr |-> readFails, body |-> lines ]

\* a variant that takes every status it does not know for an outage
StatusErrorDefaultUnavailable(statusCode) ==
    IF statusCode = StatusTooManyRequests
      THEN ErrBreachRateLimited(<<"status code", statusCode>>)
      ELSE ErrBreachAPIUnavailable(<<"status code", statusCode>>)

\* a variant that takes every 5xx status for an outage
StatusErrorAll5xxUnavailable(statusCode) ==
    IF statusCode = StatusTooManyRequests
      THEN ErrBreachRateLimited(<<"status code", statusCode>>)
    ELSE IF statusCode >= StatusInternalServerError /\ statusCode < StatusInternalServerError + 100
      THEN ErrBreachAPIUnavailable(<<"status code", statusCode>>)
    ELSE ErrBreachInvalidResponse(<<"status code", statusCode>>)

\* the switch of callHIBPAPI on a status code other than 200
StatusError(statusCode) ==
    IF statusCode = StatusTooManyRequests
      THEN ErrBreachRateLimited(<<"status code", statusCode>>)
    ELSE IF statusCode \in { StatusServiceUnavailable, StatusBadGateway,
                             StatusGatewayTimeout }
      THEN ErrBreachAPIUnavailable(<<"status code", statusCode>>)
    ELSE ErrBreachInvalidResponse(<<"status code", statusCode>>)

\* BreachService.callHIBPAPI from httpClient.Do on: the body and the error
callHIBPAPI(outcome) ==
    IF outcome.kind = "transport"
      THEN IF outcome.timeout
             THEN [ body |-> << >>, err |-> Ptr(ErrBreachTimeout(<<"net timeout">>)) ]
             ELSE [ body |-> << >>, err |-> Ptr(ErrBreachAPIUnavailable(<<"net error">>)) ]
    ELSE IF outcome.status # StatusOK
      THEN [ body |-> << >>, err |-> Ptr(StatusError(outcome.status)) ]
    ELSE IF outcome.readErr
      THEN [ body |-> << >>, err |-> Ptr(ErrBreachInvalidResponse(<<"read error">>)) ]
    ELSE [ body |-> outcome.body, err |-> Nil ]

(***************************************************************************)
(* The callers and the remote service                                      *)
(***************************************************************************)
AllGoroutines == { "g1", "g2" }

AllPasswords == { Secret1263, Secret2709, Passw0rd }

KnownDigests == { HashPassword(password) : password \in AllPasswords }

MaxLines == 2

MaxDay == 2

Line(hashSuffix, countStr) == hashSuffix \o <<":">> \o countStr

\* the suffix as the range API prints it
ApiSuffix(digest) == ToUpper(SubSeq(digest, 6, Len(digest)))

\* lines a body may carry for the digest asked about: the well-formed line,
\* the same in lower case, an unparsable and a negative count, a line with
\* a second colon, a line with blanks around its fields
OwnLines(digest) ==
    { Line(ApiSuffix(digest), <<"3">>),
      Line(ToLower(ApiSuffix(digest)), <<"3">>),
      Line(ApiSuffix(digest), <<"x">>),
      Line(ApiSuffix(digest), <<"-","1">>),
      Line(ApiSuffix(digest), <<"3",":","1">>),
      <<" ">> \o ApiSuffix(digest) \o <<" ",":"," ","3"," ">> }

\* the lines of the other known digests with the same prefix
SiblingLines(digest) ==
    { Line(ApiSuffix(other), <<"9">>) :
        other \in { o \in KnownDigests :
                      o # digest /\ SubSeq(o, 1, 5) = SubSeq(digest, 1, 5) } }

GarbageLine == <<"<","h","t","m","l",">">>

RECURSIVE SeqsUpTo(_, _)
SeqsUpTo(S, n) ==
    IF n = 0 THEN { << >> }
    ELSE LET shorter == SeqsUpTo(S, n - 1)
         IN  shorter \cup { Append(b, x) : b \in shorter, x \in S }

Bodies(digest) ==
    SeqsUpTo(OwnLines(digest) \cup SiblingLines(digest) \cup { GarbageLine }, MaxLines)

FullOutcomes(digest) ==
    { TransportError(TRUE), TransportError(FALSE), HttpResponse(StatusOK, TRUE, << >>) }
      \cup { HttpResponse(statusCode, FALSE, << >>) :
               statusCode \in { StatusNotFound, StatusTooManyRequests,
                                StatusInternalServerError, StatusBadGateway,
                                StatusServiceUnavailable, StatusGatewayTimeout } }
      \cup { HttpResponse(StatusOK, FALSE, body) : body \in Bodies(digest) }

SmallOutcomes(digest) ==
    { TransportError(TRUE),
      HttpResponse(StatusOK, FALSE, << >>),
      HttpResponse(StatusOK, FALSE, << Line(ApiSuffix(digest), <<"3">>) >>) }

OutcomeTable ==
    [ server \in { "small", "full" } |->
        [ digest \in KnownDigests |->
            IF server = "full" THEN FullOutcomes(digest) ELSE SmallOutcomes(digest) ] ]

\* two request goroutines racing on two passwords of one prefix
ConcurrentEnv ==
    [ goroutines |-> { "g1", "g2" }, passwords |-> { Secret1263, Secret2709 },
      server |-> "small" ]

\* two request goroutines contending with the sweep for the lock, one password
ContendingEnv ==
    [ goroutines |-> { "g1", "g2" }, passwords |-> { Secret1263 }, server |-> "small" ]

\* one request goroutine, every answer of the remote service
SequentialEnv ==
    [ goroutines |-> { "g1" }, passwords |-> { Secret1263, Passw0rd },
      server |-> "full" ]

(***************************************************************************)
(* BreachService: state                                                    *)
(***************************************************************************)
BreachInfo(found, breachCount, lastBreached) ==
    [ Found |-> found, BreachCount |-> breachCount, LastBreached |-> lastBreached ]

\* the empty LastBreached, and time.Now().Format("2006-01-02")
NoDate == << >>

FormatDate(day) == << "date", day >>

NoReturn == [ info |-> Nil, err |-> Nil ]

NoOutcome ==
    [ kind |-> "none", timeout |-> FALSE, status |-> 0, readErr |-> FALSE, body |-> << >> ]

\* NewBreachService, with the configuration still to be chosen
BreachConstructed ==
    /\ cache = << >>
    /\ cacheMutex = [ readers |-> {}, writer |-> "none" ]
    /\ cleaner = "ticker"
    /\ today = 1
    /\ pc = [ i \in AllGoroutines |-> "idle" ]
    /\ pw = [ i \in AllGoroutines |-> << >> ]
    /\ ret = [ i \in AllGoroutines |-> NoReturn ]
    /\ calls = [ i \in AllGoroutines |-> 0 ]
    /\ req = [ i \in AllGoroutines |-> << >> ]
    /\ resp = [ i \in AllGoroutines |-> NoOutcome ]
    /\ prev = [ i \in AllGoroutines |-> << >> ]

\* a variant that never finds an entry
getFromCacheNever(c, passwordHash) == Nil

\* a variant that is content with an entry of the same five-character prefix
getFromCacheByPrefix(c, passwordHash) ==
    LET same == { h \in DOMAIN c : SubSeq(h, 1, 5) = SubSeq(passwordHash, 1, 5) }
    IN  IF same # {} THEN Ptr(c[CHOOSE h \in same : TRUE]) ELSE Nil

\* bs.cache[passwordHash]
getFromCache(c, passwordHash) ==
    IF passwordHash \in DOMAIN c THEN Ptr(c[passwordHash]) ELSE Nil

\* a variant that keeps the entry a digest already has
addToCacheIfAbsent(c, passwordHash, breachInfo) ==
    [ h \in DOMAIN c \cup { passwordHash } |->
        IF h \in DOMAIN c THEN c[h] ELSE breachInfo ]

\* bs.cache[passwordHash] = breachInfo
addToCache(c, passwordHash, breachInfo) ==
    [ h \in DOMAIN c \cup { passwordHash } |->
        IF h = passwordHash THEN breachInfo ELSE c[h] ]

\* a variant that evicts nothing
cleanCacheKeeping(c) == c

\* bs.cache = make(map[string]*models.BreachInfo)
cleanCache(c) == << >>

\* a variant that stamps the date on every result
BuildResultAlwaysDated(body, sha1Hash, day) ==
    LET parsed == parseHIBPResponse(body, HashSuffix(sha1Hash))
    IN  BreachInfo(parsed.found, parsed.count, FormatDate(day))

\* the result CheckPasswordBreach builds from a response body
BuildResult(body, sha1Hash, day) ==
    LET parsed == parseHIBPResponse(body, HashSuffix(sha1Hash))
    IN  BreachInfo(parsed.found, parsed.count,
                   IF parsed.found THEN FormatDate(day) ELSE NoDate)

\* the return value of a disabled service
DisabledResult == BreachInfo(FALSE, 0, NoDate)

(***************************************************************************)
(* What a caller remembers of its previous completed call: the password,   *)
(* the result (Nil after an error) and whether another lookup has stored   *)
(* an entry for the same digest since.  A cache cleanup ends the memory    *)
(* of a result.                                                            *)
(***************************************************************************)
Remember(i) ==
    LET sha1Hash == HashPassword(pw[i])
    IN  IF ret[i].err # Nil
          THEN Ptr([ pw |-> pw[i], info |-> Nil, stored |-> sha1Hash \in DOMAIN cache ])
        ELSE IF sha1Hash \notin DOMAIN cache THEN << >>
        ELSE Ptr([ pw |-> pw[i], info |-> ret[i].info,
                   stored |-> Ptr(cache[sha1Hash]) # ret[i].info ])

AfterStore(i, sha1Hash) ==
    [ j \in AllGoroutines |->
        IF j # i /\ prev[j] # << >> /\ HashPassword(prev[j][1].pw) = sha1Hash
          THEN Ptr([ prev[j][1] EXCEPT !.stored = TRUE ])
          ELSE prev[j] ]

AfterCleanup ==
    [ j \in AllGoroutines |->
        IF prev[j] = << >> THEN << >>
        ELSE IF prev[j][1].info # Nil THEN << >>
        ELSE Ptr([ prev[j][1] EXCEPT !.stored = FALSE ]) ]

(***************************************************************************)
(* BreachService.CheckPasswordBreach, step by step, for goroutine i        *)
(***************************************************************************)
\* a variant without the enabled check
CheckPasswordBreachAlways(i) ==
    /\ pc[i] = "idle"
    /\ \E password \in env.passwords : pw' = [ pw EXCEPT ![i] = password ]
    /\ pc' = [ pc EXCEPT ![i] = "getFromCache" ]
    /\ UNCHANGED << strengthVars, handlerVars, uiVars, configVars, cache, cacheMutex, cleaner, today, ret, calls, req, resp, prev >>

\* the call, the enabled check, the hashing
CheckPasswordBreach(i) ==
    /\ pc[i] = "idle"
    /\ \E password \in env.passwords :
         /\ pw' = [ pw EXCEPT ![i] = password ]
         /\ IF ~enabled
              THEN /\ pc' = [ pc EXCEPT ![i] = "done" ]
                   /\ ret' = [ ret EXCEPT ![i] = [ info |-> Ptr(DisabledResult), err |-> Nil ] ]
              ELSE /\ pc' = [ pc EXCEPT ![i] = "getFromCache" ]
                   /\ ret' = ret
    /\ UNCHANGED << strengthVars, handlerVars, uiVars, configVars, cache, cacheMutex, cleaner, today, calls, req, resp, prev >>

\* getFromCache: RLock and the map read
getFromCacheRLock(i) ==
    /\ pc[i] = "getFromCache"
    /\ cacheMutex.writer = "none"
    /\ cacheMutex' = [ cacheMutex EXCEPT !.readers = @ \cup { i } ]
    /\ ret' = [ ret EXCEPT ![i].info = getFromCache(cache, HashPassword(pw[i])) ]
    /\ pc' = [ pc EXCEPT ![i] = "cachedResult" ]
    /\ UNCHANGED << strengthVars, handlerVars, uiVars, configVars, cache, cleaner, today, pw, calls, req, resp, prev >>

\* a variant that returns without releasing the read lock
getFromCacheRUnlockForgotten(i) ==
    /\ pc[i] = "cachedResult"
    /\ pc' = [ pc EXCEPT ![i] = IF ret[i].info # Nil THEN "done" ELSE "callHIBPAPI" ]
    /\ UNCHANGED << strengthVars, handlerVars, uiVars, configVars, cache, cacheMutex, cleaner, today, pw, ret, calls, req, resp, prev >>

\* getFromCache: RUnlock; a cached result is returned at once
getFromCacheRUnlock(i) ==
    /\ pc[i] = "cachedResult"
    /\ cacheMutex' = [ cacheMutex EXCEPT !.readers = @ \ { i } ]
    /\ pc' = [ pc EXCEPT ![i] = IF ret[i].info # Nil THEN "done" ELSE "callHIBPAPI" ]
    /\ UNCHANGED << strengthVars, handlerVars, uiVars, configVars, cache, cleaner, today, pw, ret, calls, req, resp, prev >>

\* a variant that takes the read lock for the time of the request
callHIBPAPISendLocked(i) ==
    /\ pc[i] = "callHIBPAPI"
    /\ cacheMutex.writer = "none"
    /\ cacheMutex' = [ cacheMutex EXCEPT !.readers = @ \cup { i } ]
    /\ calls' = [ calls EXCEPT ![i] = @ + 1 ]
    /\ LET url == RequestURL(apiEndpoint, HashPrefix(HashPassword(pw[i])))
       IN  IF NewRequestFails(url)
             THEN /\ ret' = [ ret EXCEPT ![i] =
                                [ info |-> Nil,
                                  err  |-> Ptr(ErrorfCreatingRequest(<<"net/url">>)) ] ]
                  /\ pc' = [ pc EXCEPT ![i] = "done" ]
                  /\ req' = req
             ELSE /\ req' = [ req EXCEPT ![i] = url ]
                  /\ pc' = [ pc EXCEPT ![i] = "awaitResponse" ]
                  /\ ret' = ret
    /\ UNCHANGED << strengthVars, handlerVars, uiVars, configVars, cache, cleaner, today, pw, resp, prev >>

\* callHIBPAPI: the URL, http.NewRequest, the request goes out
callHIBPAPISend(i) ==
    /\ pc[i] = "callHIBPAPI"
    /\ calls' = [ calls EXCEPT ![i] = @ + 1 ]
    /\ LET url == RequestURL(apiEndpoint, HashPrefix(HashPassword(pw[i])))
       IN  IF NewRequestFails(url)
             THEN /\ ret' = [ ret EXCEPT ![i] =
                                [ info |-> Nil,
                                  err  |-> Ptr(ErrorfCreatingRequest(<<"net/url">>)) ] ]
                  /\ pc' = [ pc EXCEPT ![i] = "done" ]
                  /\ req' = req
             ELSE /\ req' = [ req EXCEPT ![i] = url ]
                  /\ pc' = [ pc EXCEPT ![i] = "awaitResponse" ]
                  /\ ret' = ret
    /\ UNCHANGED << strengthVars, handlerVars, uiVars, configVars, cache, cacheMutex, cleaner, today, pw, resp, prev >>

\* a variant that asks once more when the call fails
callHIBPAPIReceiveRetrying(i) ==
    /\ pc[i] = "awaitResponse"
    /\ \E outcome \in OutcomeTable[env.server][HashPassword(pw[i])] :
         /\ resp' = [ resp EXCEPT ![i] = outcome ]
         /\ IF callHIBPAPI(outcome).err # Nil
              THEN /\ ret' = [ ret EXCEPT ![i] =
                                 [ info |-> Nil, err |-> callHIBPAPI(outcome).err ] ]
                   /\ pc' = [ pc EXCEPT ![i] = IF calls[i] < 2 THEN "callHIBPAPI" ELSE "done" ]
              ELSE /\ ret' = [ ret EXCEPT ![i] =
                                 [ info |-> Ptr(BuildResult(callHIBPAPI(outcome).body,
                                                            HashPassword(pw[i]), today)),
                                   err  |-> Nil ] ]
                   /\ pc' = [ pc EXCEPT ![i] = "addToCache" ]
    /\ UNCHANGED << strengthVars, handlerVars, uiVars, configVars, cache, cacheMutex, cleaner, today, pw, calls, req, prev >>

\* a variant that caches "not found" when the call fails
callHIBPAPIReceiveCachingFailure(i) ==
    /\ pc[i] = "awaitResponse"
    /\ \E outcome \in OutcomeTable[env.server][HashPassword(pw[i])] :
         /\ resp' = [ resp EXCEPT ![i] = outcome ]
         /\ IF callHIBPAPI(outcome).err # Nil
              THEN /\ ret' = [ ret EXCEPT ![i] =
                                 [ info |-> Nil, err |-> callHIBPAPI(outcome).err ] ]
                   /\ cache' = addToCache(cache, HashPassword(pw[i]), DisabledResult)
                   /\ pc' = [ pc EXCEPT ![i] = "done" ]
              ELSE /\ ret' = [ ret EXCEPT ![i] =
                                 [ info |-> Ptr(BuildResult(callHIBPAPI(outcome).body,
                                                            HashPassword(pw[i]), today)),
                                   err  |-> Nil ] ]
                   /\ cache' = cache
                   /\ pc' = [ pc EXCEPT ![i] = "addToCache" ]
    /\ UNCHANGED << strengthVars, handlerVars, uiVars, configVars, cacheMutex, cleaner, today, pw, calls, req, prev >>

\* callHIBPAPI returns; on success the response is parsed and the result built
callHIBPAPIReceive(i) ==
    /\ pc[i] = "awaitResponse"
    /\ \E outcome \in OutcomeTable[env.server][HashPassword(pw[i])] :
         /\ resp' = [ resp EXCEPT ![i] = outcome ]
         /\ IF callHIBPAPI(outcome).err # Nil
              THEN /\ ret' = [ ret EXCEPT ![i] =
                                 [ info |-> Nil, err |-> callHIBPAPI(outcome).err ] ]
                   /\ pc' = [ pc EXCEPT ![i] = "done" ]
              ELSE /\ ret' = [ ret EXCEPT ![i] =
                                 [ info |-> Ptr(BuildResult(callHIBPAPI(outcome).body,
                                                            HashPassword(pw[i]), today)),
                                   err  |-> Nil ] ]
                   /\ pc' = [ pc EXCEPT ![i] = "addToCache" ]
    /\ UNCHANGED << strengthVars, handlerVars, uiVars, configVars, cache, cacheMutex, cleaner, today, pw, calls, req, prev >>

\* addToCache: Lock and the map write
addToCacheLock(i) ==
    /\ pc[i] = "addToCache"
    /\ cacheMutex.writer = "none"
    /\ cacheMutex.readers = {}
    /\ cacheMutex' = [ cacheMutex EXCEPT !.writer = i ]
    /\ cache' = addToCache(cache, HashPassword(pw[i]), ret[i].info[1])
    /\ prev' = AfterStore(i, HashPassword(pw[i]))
    /\ pc' = [ pc EXCEPT ![i] = "stored" ]
    /\ UNCHANGED << strengthVars, handlerVars, uiVars, configVars, cleaner, today, pw, ret, calls, req, resp >>

\* addToCache: Unlock; CheckPasswordBreach returns the result
addToCacheUnlock(i) ==
    /\ pc[i] = "stored"
    /\ cacheMutex' = [ cacheMutex EXCEPT !.writer = "none" ]
    /\ pc' = [ pc EXCEPT ![i] = "done" ]
    /\ UNCHANGED << strengthVars, handlerVars, uiVars, configVars, cache, cleaner, today, pw, ret, calls, req, resp, prev >>

\* the caller takes the return values and is free for its next call
Return(i) ==
    /\ pc[i] = "done"
    /\ prev' = [ prev EXCEPT ![i] = Remember(i) ]
    /\ pc' = [ pc EXCEPT ![i] = "idle" ]
    /\ pw' = [ pw EXCEPT ![i] = << >> ]
    /\ ret' = [ ret EXCEPT ![i] = NoReturn ]
    /\ calls' = [ calls EXCEPT ![i] = 0 ]
    /\ req' = [ req EXCEPT ![i] = << >> ]
    /\ resp' = [ resp EXCEPT ![i] = NoOutcome ]
    /\ UNCHANGED << strengthVars, handlerVars, uiVars, configVars, cache, cacheMutex, cleaner, today >>

(***************************************************************************)
(* startCacheCleanup: on each tick of its ticker, cleanCache               *)
(***************************************************************************)
cleanCacheLock ==
    /\ cleaner = "ticker"
    /\ cacheMutex.writer = "none"
    /\ cacheMutex.readers = {}
    /\ cacheMutex' = [ cacheMutex EXCEPT !.writer = "cleaner" ]
    /\ cache' = cleanCache(cache)
    /\ prev' = AfterCleanup
    /\ cleaner' = "cleaning"
    /\ UNCHANGED << strengthVars, handlerVars, uiVars, configVars, today, pc, pw, ret, calls, req, resp >>

cleanCacheUnlock ==
    /\ cleaner = "cleaning"
    /\ cacheMutex' = [ cacheMutex EXCEPT !.writer = "none" ]
    /\ cleaner' = "ticker"
    /\ UNCHANGED << strengthVars, handlerVars, uiVars, configVars, cache, today, pc, pw, ret, calls, req, resp, prev >>

\* midnight passes
Tick ==
    /\ today < MaxDay
    /\ today' = today + 1
    /\ UNCHANGED << strengthVars, handlerVars, uiVars, configVars, cache, cacheMutex, cleaner, pc, pw, ret, calls, req, resp, prev >>

(***************************************************************************)
(* The password app (src/ui): PasswordInputComponent, PasswordAppComponent *)
(* and ApiUtils.debounce.  A result is modelled by the password it was     *)
(* computed for.  Timers of one debouncer that carry the same password are *)
(* not told apart.                                                         *)
(***************************************************************************)
PwAbc == <<"a","b","c">>

PwTrailingBlank == PwPassword1Bang \o << " " >>

\* what the user may leave in the field: nothing, a short password, two
\* passwords the API takes, one with a blank at its end
UiPasswords == { << >>, PwAbc, PwPassword1Bang, Secret1263, PwTrailingBlank }

\* ApiUtils.meetsMinimumLength
meetsMinimumLength(password) == Len(password) >= 8

\* ApiUtils.isValidPassword
isValidPassword(password) ==
    /\ Len(password) >= 8
    /\ Len(password) <= 128
    /\ TrimSpace(password) = password

\* ApiUtils.debounce, timeoutId: null, the id of the pending timer of a
\* password, or still the id of a timer that has run
TimeoutNull == [ timer |-> "null", password |-> << >> ]

TimeoutPending(password) == [ timer |-> "pending", password |-> password ]

TimeoutFired(password) == [ timer |-> "fired", password |-> password ]

\* the closure's state before its first call
DebounceIdle == [ pending |-> {}, timeoutId |-> TimeoutNull, inflight |-> {} ]

\* the returned function is called: if (timeoutId) clearTimeout(timeoutId);
\* timeoutId = window.setTimeout(...)
DebounceCall(d, password) ==
    LET cleared == IF d.timeoutId.timer = "pending"
                     THEN d.pending \ { d.timeoutId.password } ELSE d.pending
    IN  [ d EXCEPT !.pending = cleared \cup { password },
                   !.timeoutId = TimeoutPending(password) ]

\* a timer of the debouncer runs: func(...args) is called and awaited
DebounceFire(d, password) ==
    [ d EXCEPT !.pending = @ \ { password },
               !.timeoutId = IF @ = TimeoutPending(password) THEN TimeoutFired(password) ELSE @,
               !.inflight = @ \cup { password } ]

\* the awaited call is over: finally { timeoutId = null; lastPromise = null }
DebounceSettle(d, password) ==
    [ d EXCEPT !.inflight = @ \ { password }, !.timeoutId = TimeoutNull ]

MeterReset == [ shows |-> "reset", password |-> << >> ]

AlertHidden == [ shows |-> "hidden", password |-> << >> ]

\* the app as rendered
UiLoaded ==
    /\ uiValue = << >>
    /\ inputTimer = Nil
    /\ strengthDebounce = DebounceIdle
    /\ breachDebounce = DebounceIdle
    /\ meter = MeterReset
    /\ alert = AlertHidden

\* PasswordInputComponent.handleInput: the user edits the field
handleInput ==
    /\ \E newValue \in UiPasswords \ { uiValue } :
         /\ uiValue' = newValue
         /\ inputTimer' = Ptr(newValue)
    /\ UNCHANGED << strengthDebounce, breachDebounce, meter, alert,
                    strengthVars, handlerVars, configVars, breachVars >>

\* the input's timer runs: the password-change event is dispatched and
\* PasswordAppComponent.handlePasswordChange handles it
handlePasswordChange ==
    /\ inputTimer # Nil
    /\ inputTimer' = Nil
    /\ LET password == inputTimer[1]
       IN  IF Len(password) = 0
             THEN \* resetAllComponents
                  /\ meter' = MeterReset
                  /\ alert' = AlertHidden
                  /\ UNCHANGED << strengthDebounce, breachDebounce >>
           ELSE IF ~meetsMinimumLength(password)
             THEN /\ alert' = AlertHidden
                  /\ UNCHANGED << meter, strengthDebounce, breachDebounce >>
           ELSE IF ~isValidPassword(password)
             THEN UNCHANGED << meter, alert, strengthDebounce, breachDebounce >>
           ELSE /\ strengthDebounce' = DebounceCall(strengthDebounce, password)
                /\ breachDebounce' = DebounceCall(breachDebounce, password)
                /\ UNCHANGED << meter, alert >>
    /\ UNCHANGED << uiValue, strengthVars, handlerVars, configVars, breachVars >>

\* a timer of debouncedPasswordCheck runs: checkPasswordStrength sends its request
checkPasswordStrength ==
    /\ \E password \in strengthDebounce.pending :
         strengthDebounce' = DebounceFire(strengthDebounce, password)
    /\ UNCHANGED << uiValue, inputTimer, breachDebounce, meter, alert,
                    strengthVars, handlerVars, configVars, breachVars >>

\* the response to a strength request is there: updateStrengthMeter on
\* success, showError otherwise
checkPasswordStrengthSettles ==
    /\ \E password \in strengthDebounce.inflight, success \in BOOLEAN :
         /\ strengthDebounce' = DebounceSettle(strengthDebounce, password)
         /\ meter' = IF success THEN [ shows |-> "score", password |-> password ] ELSE meter
    /\ UNCHANGED << uiValue, inputTimer, breachDebounce, alert,
                    strengthVars, handlerVars, configVars, breachVars >>

\* a timer of debouncedBreachCheck runs: checkPasswordBreach shows
\* "checking" and sends its request
checkPasswordBreach ==
    /\ \E password \in breachDebounce.pending :
         /\ breachDebounce' = DebounceFire(breachDebounce, password)
         /\ alert' = [ shows |-> "checking", password |-> password ]
    /\ UNCHANGED << uiValue, inputTimer, strengthDebounce, meter,
                    strengthVars, handlerVars, configVars, breachVars >>

\* the response to a breach request is there: updateBreachAlert on success,
\* breachAlert.showError otherwise
checkPasswordBreachSettles ==
    /\ \E password \in breachDebounce.inflight, success \in BOOLEAN :
         /\ breachDebounce' = DebounceSettle(breachDebounce, password)
         /\ alert' = [ shows |-> IF success THEN "status" ELSE "error", password |-> password ]
    /\ UNCHANGED << uiValue, inputTimer, strengthDebounce, meter,
                    strengthVars, handlerVars, configVars, breachVars >>

UiInit ==
    /\ UiLoaded
    /\ strengthPassword = << >>
    /\ strengthResponse = NoResponse
    /\ strengthFirst = NoResponse
    /\ conversion = IntMin
    /\ handled = NoHandled
    /\ env = SequentialEnv
    /\ enabled = TRUE
    /\ apiEndpoint = defaultHibpAPIEndpoint
    /\ BreachConstructed

UiNext ==
    \/ handleInput
    \/ handlePasswordChange
    \/ checkPasswordStrength
    \/ checkPasswordStrengthSettles
    \/ checkPasswordBreach
    \/ checkPasswordBreachSettles

UiSpec == UiInit /\ [][UiNext]_vars

(***************************************************************************)
(* Specifications                                                          *)
(***************************************************************************)
Next ==
    \/ \E i \in env.goroutines :
         \/ CheckPasswordBreach(i)
         \/ getFromCacheRLock(i)
         \/ getFromCacheRUnlock(i)
         \/ callHIBPAPISend(i)
         \/ callHIBPAPIReceive(i)
         \/ addToCacheLock(i)
         \/ addToCacheUnlock(i)
         \/ Return(i)
    \/ cleanCacheLock
    \/ cleanCacheUnlock
    \/ Tick

\* the service as main constructs it from the loaded configuration
Configured ==
    /\ enabled \in BOOLEAN
    /\ apiEndpoint \in Endpoints
    /\ BreachConstructed
    /\ strengthPassword = << >>
    /\ strengthResponse = NoResponse
    /\ strengthFirst = NoResponse
    /\ conversion = IntMin
    /\ handled = NoHandled
    /\ UiLoaded

Init == env = ConcurrentEnv /\ Configured

Spec == Init /\ [][Next]_vars

\* The scheduler runs every goroutine that can take a step; sync.RWMutex
\* lets no waiting reader or writer starve; and every request that is out
\* gets its response or its error (the client's timeout at the latest).
Fairness ==
    /\ \A i \in AllGoroutines :
         /\ WF_vars(getFromCacheRUnlock(i))
         /\ WF_vars(callHIBPAPISend(i))
         /\ WF_vars(callHIBPAPIReceive(i))
         /\ WF_vars(addToCacheUnlock(i))
         /\ SF_vars(getFromCacheRLock(i))
         /\ SF_vars(addToCacheLock(i))
    /\ WF_vars(cleanCacheUnlock)

FairInit == env = ContendingEnv /\ Configured

FairSpec == FairInit /\ [][Next]_vars /\ Fairness

SeqInit == env = SequentialEnv /\ Configured

SeqSpec == SeqInit /\ [][Next]_vars

\* the caller has chosen its password; CheckStrength has not run yet.  The
\* builds are told apart only for the passwords whose score reaches the
\* conversion of a value out of range (character set size 0).
StrengthInit ==
    /\ strengthPassword \in StrengthPasswords
    /\ strengthResponse = NoResponse
    /\ strengthFirst = NoResponse
    /\ conversion \in IF getCharacterSetSize(strengthPassword) = 0
                        THEN FloatToIntOutOfRange
                        ELSE { IntMin }
    /\ handled = NoHandled
    /\ UiLoaded
    /\ env = SequentialEnv
    /\ enabled = TRUE
    /\ apiEndpoint = defaultHibpAPIEndpoint
    /\ BreachConstructed

\* the call of PasswordStrengthChecker.CheckStrength on that password
Evaluate ==
    /\ strengthResponse = NoResponse
    /\ strengthResponse' = CheckStrength(strengthPassword, conversion)
    /\ UNCHANGED << strengthPassword, strengthFirst, conversion, handlerVars, uiVars, configVars, breachVars >>

StrengthNext == Evaluate

StrengthSpec == StrengthInit /\ [][StrengthNext]_vars

\* the caller keeps the result and calls CheckStrength with the same password once more
EvaluateAgain ==
    /\ strengthResponse # NoResponse
    /\ strengthFirst = NoResponse
    /\ strengthFirst' = strengthResponse
    /\ strengthResponse' = NoResponse
    /\ UNCHANGED << strengthPassword, conversion, handlerVars, uiVars, configVars, breachVars >>

\* one request goroutine and one password beside the strength calls
BesideEnv ==
    [ goroutines |-> { "g1" }, passwords |-> { Secret1263 }, server |-> "small" ]

MixedPasswords == { PwSpaces, Pw123, PwPassword1 }

\* strength calls and breach calls of one process, in any order
MixedInit ==
    /\ strengthPassword \in MixedPasswords
    /\ strengthResponse = NoResponse
    /\ strengthFirst = NoResponse
    /\ conversion \in FloatToIntOutOfRange
    /\ handled = NoHandled
    /\ UiLoaded
    /\ env = BesideEnv
    /\ enabled = TRUE
    /\ apiEndpoint = defaultHibpAPIEndpoint
    /\ BreachConstructed

MixedNext ==
    \/ Evaluate
    \/ EvaluateAgain
    \/ Next

MixedSpec == MixedInit /\ [][MixedNext]_vars

(***************************************************************************)
(* PasswordCheckHandler: POST /api/v1/password/check                       *)
(***************************************************************************)
\* the binding of PasswordRequest: required, min=8, max=128
BindingFails(password) == Len(password) < 8 \/ Len(password) > 128

\* passwordValidator.Validate
ValidateFails(password) ==
    \/ Len(password) < 8
    \/ Len(password) > 128
    \/ ~hasUpper(password) \/ ~hasLower(password)
    \/ ~hasNumber(password) \/ ~hasSpecial(password)

\* the PasswordResponse as CheckStrength leaves it: no breach data
WithoutBreachData(response) ==
    [ Strength     |-> response.Strength,
      Score        |-> response.Score,
      Feedback     |-> response.Feedback,
      Requirements |-> response.Requirements,
      BreachData   |-> Nil ]

AddBreachInfoToPasswordResponse(response, breachInfo) ==
    LET found == breachInfo # Nil /\ breachInfo[1].Found
    IN  [ response EXCEPT
            !.BreachData = breachInfo,
            !.Feedback.Warnings =
                IF found THEN Append(@, "Password has appeared in data breaches") ELSE @,
            !.Feedback.Suggestions =
                IF found THEN Append(@, "Choose a password that hasn't been compromised")
                         ELSE @ ]

\* the handler's goroutine and the passwords clients post
HandlerGoroutine == "g1"

HandlerPasswords == { Secret1263, Passw0rd, PwPassword, Pw123 }

\* ShouldBindJSON and CheckPasswordStrength: the request is refused, or the
\* strength response is there
PasswordCheckHandlerStrength ==
    /\ handled = NoHandled
    /\ strengthResponse = NoResponse
    /\ IF BindingFails(strengthPassword)
         THEN /\ handled' = [ status |-> 400, error |-> "Invalid request format" ]
              /\ strengthResponse' = strengthResponse
         ELSE IF ValidateFails(strengthPassword)
         THEN /\ handled' = [ status |-> 422, error |-> "Password validation failed" ]
              /\ strengthResponse' = strengthResponse
         ELSE /\ strengthResponse' = CheckStrength(strengthPassword, conversion)
              /\ handled' = handled
    /\ UNCHANGED << strengthPassword, strengthFirst, conversion, uiVars, configVars, breachVars >>

\* breachService.CheckPasswordBreach(request.Password) is called
PasswordCheckHandlerBreach ==
    /\ handled = NoHandled
    /\ strengthResponse # NoResponse
    /\ CheckPasswordBreach(HandlerGoroutine)
    /\ pw'[HandlerGoroutine] = strengthPassword

\* a variant that refuses the request when the breach check fails
PasswordCheckHandlerRespondFailing ==
    /\ handled = NoHandled
    /\ strengthResponse # NoResponse
    /\ pc[HandlerGoroutine] = "done"
    /\ handled' =
         IF ret[HandlerGoroutine].err = Nil
           THEN [ status |-> 200,
                  body   |-> AddBreachInfoToPasswordResponse(
                               WithoutBreachData(strengthResponse),
                               ret[HandlerGoroutine].info) ]
           ELSE [ status |-> 503, error |-> "Breach check failed" ]
    /\ prev' = [ prev EXCEPT ![HandlerGoroutine] = Remember(HandlerGoroutine) ]
    /\ pc' = [ pc EXCEPT ![HandlerGoroutine] = "idle" ]
    /\ pw' = [ pw EXCEPT ![HandlerGoroutine] = << >> ]
    /\ ret' = [ ret EXCEPT ![HandlerGoroutine] = NoReturn ]
    /\ calls' = [ calls EXCEPT ![HandlerGoroutine] = 0 ]
    /\ req' = [ req EXCEPT ![HandlerGoroutine] = << >> ]
    /\ resp' = [ resp EXCEPT ![HandlerGoroutine] = NoOutcome ]
    /\ UNCHANGED << strengthVars, uiVars, configVars, cache, cacheMutex, cleaner, today >>

\* CheckPasswordBreach has returned: its result is added when there is no
\* error, and the response goes out with status 200
PasswordCheckHandlerRespond ==
    /\ handled = NoHandled
    /\ strengthResponse # NoResponse
    /\ pc[HandlerGoroutine] = "done"
    /\ handled' =
         [ status |-> 200,
           body   |-> IF ret[HandlerGoroutine].err = Nil
                        THEN AddBreachInfoToPasswordResponse(
                               WithoutBreachData(strengthResponse),
                               ret[HandlerGoroutine].info)
                        ELSE WithoutBreachData(strengthResponse) ]
    /\ prev' = [ prev EXCEPT ![HandlerGoroutine] = Remember(HandlerGoroutine) ]
    /\ pc' = [ pc EXCEPT ![HandlerGoroutine] = "idle" ]
    /\ pw' = [ pw EXCEPT ![HandlerGoroutine] = << >> ]
    /\ ret' = [ ret EXCEPT ![HandlerGoroutine] = NoReturn ]
    /\ calls' = [ calls EXCEPT ![HandlerGoroutine] = 0 ]
    /\ req' = [ req EXCEPT ![HandlerGoroutine] = << >> ]
    /\ resp' = [ resp EXCEPT ![HandlerGoroutine] = NoOutcome ]
    /\ UNCHANGED << strengthVars, uiVars, configVars, cache, cacheMutex, cleaner, today >>

\* the router hands the next request to the handler
PasswordCheckRequest ==
    /\ handled # NoHandled
    /\ strengthPassword' \in HandlerPasswords
    /\ strengthResponse' = NoResponse
    /\ handled' = NoHandled
    /\ UNCHANGED << strengthFirst, conversion, uiVars, configVars, breachVars >>

HandlerInit ==
    /\ strengthPassword \in HandlerPasswords
    /\ strengthResponse = NoResponse
    /\ strengthFirst = NoResponse
    /\ conversion = IntMin
    /\ handled = NoHandled
    /\ UiLoaded
    /\ env = SequentialEnv
    /\ enabled \in BOOLEAN
    /\ apiEndpoint \in Endpoints
    /\ BreachConstructed

HandlerNext ==
    \/ PasswordCheckHandlerStrength
    \/ PasswordCheckHandlerBreach
    \/ getFromCacheRLock(HandlerGoroutine)
    \/ getFromCacheRUnlock(HandlerGoroutine)
    \/ callHIBPAPISend(HandlerGoroutine)
    \/ callHIBPAPIReceive(HandlerGoroutine)
    \/ addToCacheLock(HandlerGoroutine)
    \/ addToCacheUnlock(HandlerGoroutine)
    \/ PasswordCheckHandlerRespond
    \/ PasswordCheckRequest
    \/ cleanCacheLock
    \/ cleanCacheUnlock
    \/ Tick

HandlerSpec == HandlerInit /\ [][HandlerNext]_vars

(***************************************************************************)
(* Properties                                                              *)
(***************************************************************************)

\* C1 (StrengthSpec): CheckStrength is total and bounded.  For every
\* password, the empty one included, the evaluation has a value, and whatever
\* it returns has a score in 0..100 and the category the boundary table
\* gives that score: below 40 weak, 40..59 medium, 60..79 strong, 80 and
\* above very_strong.
C1_ScoreBoundedAndCategorised ==
    /\ strengthResponse = NoResponse =>
         CheckStrength(strengthPassword, conversion).Score \in 0..100
    /\ strengthResponse # NoResponse =>
         /\ strengthResponse.Score \in 0..100
         /\ strengthResponse.Strength =
              ( IF strengthResponse.Score < 40 THEN "weak"
                ELSE IF strengthResponse.Score <= 59 THEN "medium"
                ELSE IF strengthResponse.Score <= 79 THEN "strong"
                ELSE "very_strong" )

\* the empty password has been evaluated: score 0, weak
C1_EmptyPasswordEvaluated ==
    /\ strengthPassword = << >>
    /\ strengthResponse # NoResponse
    /\ strengthResponse.Score = 0
    /\ strengthResponse.Strength = "weak"

\* C2 (Spec): k-anonymity.  Every request that has gone out is the endpoint,
\* a slash and the first five characters of the digest; it holds neither the
\* 35-character suffix (in either case), nor the digest, nor the password;
\* and two requests in flight for digests of one prefix are the same text.
C2_KAnonymity ==
    \A i \in env.goroutines :
      req[i] # << >> =>
        LET digest == DefaultHashPassword(pw[i])
        IN  /\ req[i] = apiEndpoint \o <<"/">> \o SubSeq(digest, 1, 5)
            /\ ~Contains(req[i], SubSeq(digest, 6, 40))
            /\ ~Contains(req[i], ToUpper(SubSeq(digest, 6, 40)))
            /\ ~Contains(req[i], digest)
            /\ ~Contains(req[i], pw[i])
            /\ \A j \in env.goroutines :
                 ( /\ req[j] # << >>
                   /\ SubSeq(DefaultHashPassword(pw[j]), 1, 5) = SubSeq(digest, 1, 5) )
                 => req[j] = req[i]

\* two requests are in flight for two passwords of one prefix
C2_TwoPasswordsOnePrefix ==
    /\ req["g1"] # << >>
    /\ req["g2"] # << >>
    /\ pw["g1"] # pw["g2"]
    /\ SubSeq(DefaultHashPassword(pw["g1"]), 1, 5) = SubSeq(DefaultHashPassword(pw["g2"]), 1, 5)

\* C3 as stated (Spec): a caller whose previous call returned a result, with
\* no sweep since, calls again with the same password; the call makes no
\* request and returns the very values of the previous call.
C3_SecondCallSameValues ==
    \A i \in env.goroutines :
      ( /\ pc[i] = "done"
        /\ prev[i] # << >>
        /\ prev[i][1].info # Nil
        /\ pw[i] = prev[i][1].pw )
      => /\ calls[i] = 0
         /\ ret[i] = [ info |-> prev[i][1].info, err |-> Nil ]

\* C3 (Spec): a caller whose previous call returned a result, with no sweep
\* since, calls again with the same password; the call makes no request and
\* returns a result without error, and the result has the values of the
\* previous call unless another lookup of the same digest has stored its
\* own result in between.
C3_SecondCallFromCache ==
    \A i \in env.goroutines :
      ( /\ pc[i] = "done"
        /\ prev[i] # << >>
        /\ prev[i][1].info # Nil
        /\ pw[i] = prev[i][1].pw )
      => /\ calls[i] = 0
         /\ ret[i].err = Nil
         /\ ret[i].info # Nil
         /\ ~prev[i][1].stored => ret[i].info = prev[i][1].info

\* a second call has returned the found result of the first without a request
C3_SecondCallHit ==
    /\ pc["g1"] = "done"
    /\ prev["g1"] # << >>
    /\ prev["g1"][1].info # Nil
    /\ ~prev["g1"][1].stored
    /\ pw["g1"] = prev["g1"][1].pw
    /\ calls["g1"] = 0
    /\ ret["g1"].info = prev["g1"][1].info
    /\ ret["g1"].info[1].Found

C5_DisabledBypassesEverything ==
    ~enabled =>
      /\ cache = << >>
      /\ cacheMutex.readers = {}
      /\ cacheMutex.writer \notin env.goroutines
      /\ \A i \in env.goroutines :
           /\ pc[i] \in { "idle", "done" }
           /\ calls[i] = 0
           /\ req[i] = << >>
           /\ pc[i] = "done" =>
                ret[i] = [ info |-> << [ Found |-> FALSE, BreachCount |-> 0,
                                         LastBreached |-> << >> ] >>,
                           err  |-> << >> ]

\* both callers hold the answer of the disabled service
C5_DisabledAnswered ==
    /\ ~enabled
    /\ pc["g1"] = "done"
    /\ pc["g2"] = "done"
    /\ pw["g1"] # pw["g2"]

\* C6 (SeqSpec): suffix matching is case-insensitive.  When every line of a
\* 200 body carries the digest's suffix, in upper or in lower case, with the
\* count 3, the call returns found with count 3.
C6_CaseInsensitiveMatch ==
    \A i \in env.goroutines :
      ( /\ pc[i] = "done"
        /\ resp[i].kind = "response"
        /\ resp[i].status = 200
        /\ ~resp[i].readErr
        /\ resp[i].body # << >>
        /\ \A k \in 1..Len(resp[i].body) :
             /\ Len(resp[i].body[k]) = 37
             /\ ToUpper(SubSeq(resp[i].body[k], 1, 35))
                  = ToUpper(SubSeq(DefaultHashPassword(pw[i]), 6, 40))
             /\ SubSeq(resp[i].body[k], 36, 37) = <<":", "3">> )
      => /\ ret[i].err = Nil
         /\ ret[i].info # Nil
         /\ ret[i].info[1].Found
         /\ ret[i].info[1].BreachCount = 3

\* C7 (SeqSpec): every error a call returns is a BreachServiceError of one of
\* the four classifications.
C7_EveryErrorClassified ==
    \A i \in env.goroutines :
      ( pc[i] = "done" /\ ret[i].err # Nil )
      => /\ ret[i].err[1].Type = "BreachServiceError"
         /\ ret[i].err[1].Message \in { "breach API request timed out",
                                        "breach API rate limit exceeded",
                                        "breach API is unavailable",
                                        "breach API returned invalid response" }

C9_Every5xxUnavailable ==
    \A i \in env.goroutines :
      ( /\ pc[i] = "done"
        /\ resp[i].kind = "response"
        /\ resp[i].status \in 500..599 )
      => /\ ret[i].err # Nil
         /\ ret[i].err[1].Message = "breach API is unavailable"

\* C9 (SeqSpec): the statuses 502, 503 and 504 are returned as
\* ServiceUnavailable; every other status from 500 to 599, 500 among them,
\* is returned as InvalidResponse.
C9_GatewayStatusesUnavailable ==
    \A i \in env.goroutines :
      ( /\ pc[i] = "done"
        /\ resp[i].kind = "response"
        /\ resp[i].status \in 500..599 )
      => /\ ret[i].err # Nil
         /\ ret[i].info = Nil
         /\ ret[i].err[1].Type = "BreachServiceError"
         /\ ret[i].err[1].Message =
              ( IF resp[i].status \in { 502, 503, 504 }
                  THEN "breach API is unavailable"
                  ELSE "breach API returned invalid response" )

\* a 500 has been returned as InvalidResponse
C9_InternalErrorIsInvalid ==
    /\ pc["g1"] = "done"
    /\ resp["g1"].kind = "response"
    /\ resp["g1"].status = 500
    /\ ret["g1"].err # Nil
    /\ ret["g1"].err[1].Message = "breach API returned invalid response"
    /\ ret["g1"].info = Nil

\* C10 (SeqSpec): a 200 body none of whose lines has the form suffix:count
\* (here: no line holds a colon) makes the call fail with InvalidResponse,
\* and no entry is cached for the digest.
C10_UnparsableBodyFails ==
    \A i \in env.goroutines :
      ( /\ pc[i] = "done"
        /\ resp[i].kind = "response"
        /\ resp[i].status = 200
        /\ ~resp[i].readErr
        /\ resp[i].body # << >>
        /\ \A k \in 1..Len(resp[i].body) :
             \A j \in 1..Len(resp[i].body[k]) : resp[i].body[k][j] # ":" )
      => /\ ret[i].info = Nil
         /\ ret[i].err # Nil
         /\ ret[i].err[1].Message = "breach API returned invalid response"
         /\ DefaultHashPassword(pw[i]) \notin DOMAIN cache

\* C11 (SeqSpec): on a successful lookup the result is found exactly when
\* some line of the body is a suffix:count line whose suffix is the digest's
\* own (upper-case) suffix; the count is then the one parsed from the first
\* such line (0 when its count field is no number); without such a line the
\* result is not found with count 0; and the date is set exactly when the
\* result is found.
C11_FoundIffSuffixListed ==
    \A i \in env.goroutines :
      ( /\ pc[i] = "done"
        /\ resp[i].kind = "response"
        /\ resp[i].status = 200
        /\ ~resp[i].readErr )
      => LET body == resp[i].body
             own == ToUpper(SubSeq(DefaultHashPassword(pw[i]), 6, 40))
             matching == { k \in 1..Len(body) :
                             /\ Len(SplitColon(body[k])) = 2
                             /\ TrimSpace(SplitColon(body[k])[1]) = own }
             first == CHOOSE k \in matching : \A j \in matching : k <= j
             number == Atoi(TrimSpace(SplitColon(body[first])[2]))
         IN  /\ ret[i].err = Nil
             /\ ret[i].info # Nil
             /\ ret[i].info[1].Found <=> (matching # {})
             /\ matching # {} =>
                  ret[i].info[1].BreachCount = (IF number.err THEN 0 ELSE number.value)
             /\ matching = {} => ret[i].info[1].BreachCount = 0
             /\ (ret[i].info[1].LastBreached # << >>) <=> ret[i].info[1].Found

\* the own line came second, after the line of another digest, and was found
C11_OwnLineAfterSibling ==
    /\ pc["g1"] = "done"
    /\ resp["g1"].kind = "response"
    /\ Len(resp["g1"].body) = 2
    /\ resp["g1"].body[1] # resp["g1"].body[2]
    /\ Len(resp["g1"].body[1]) = 37
    /\ SubSeq(resp["g1"].body[1], 36, 37) = <<":", "9">>
    /\ ret["g1"].info # Nil
    /\ ret["g1"].info[1].Found
    /\ ret["g1"].info[1].BreachCount = 3
    /\ ret["g1"].info[1].LastBreached # << >>

\* C12 (SeqSpec): every result returned and every cache entry has a breach
\* count of at least 0.
C12_CountNeverNegative ==
    /\ \A i \in env.goroutines :
         ret[i].info # Nil => ret[i].info[1].BreachCount >= 0
    /\ \A h \in DOMAIN cache : cache[h].BreachCount >= 0

C14_SweepEvictsAll ==
    [][ ( cleaner = "ticker" /\ cleaner' = "cleaning" )
        => /\ cache' = << >>
           /\ pc' = pc
           /\ ret' = ret
           /\ today' = today ]_vars

\* an entry was swept before its caller had even taken the result
C14_EvictedAtOnce ==
    /\ cleaner = "cleaning"
    /\ cache = << >>
    /\ pc["g1"] = "done"
    /\ resp["g1"].kind = "response"
    /\ ret["g1"].info # Nil
    /\ ret["g1"].info[1].Found
    /\ today = 1

\* C15 (Spec): no in-flight de-duplication.  Every store writes the storing
\* call's own result under its digest, over whatever entry is there, and
\* leaves the other entries alone; so when two calls for one password have
\* both fetched and stored a result, the entry of the digest (unless swept)
\* is the result of one of the two, the one that wrote last.
C15_LastWriterWins ==
    [][ /\ \A i \in env.goroutines :
             ( pc[i] = "addToCache" /\ pc'[i] = "stored" )
             => /\ DOMAIN cache' = DOMAIN cache \cup { DefaultHashPassword(pw[i]) }
                /\ cache'[DefaultHashPassword(pw[i])] = ret[i].info[1]
                /\ \A h \in DOMAIN cache :
                     h # DefaultHashPassword(pw[i]) => cache'[h] = cache[h]
        /\ \A i, j \in env.goroutines :
             ( /\ i # j
               /\ pc'[i] = "done" /\ pc'[j] = "done"
               /\ pw'[i] = pw'[j]
               /\ resp'[i].kind = "response" /\ resp'[j].kind = "response"
               /\ ret'[i].err = Nil /\ ret'[j].err = Nil
               /\ DefaultHashPassword(pw'[i]) \in DOMAIN cache' )
             => << cache'[DefaultHashPassword(pw'[i])] >> \in { ret'[i].info, ret'[j].info } ]_vars

\* two calls for one password both missed and both asked; they got different
\* answers and the cache holds the second caller's
C15_BothAskedSecondStays ==
    /\ pc["g1"] = "done" /\ pc["g2"] = "done"
    /\ pw["g1"] = pw["g2"]
    /\ calls["g1"] = 1 /\ calls["g2"] = 1
    /\ resp["g1"].kind = "response" /\ resp["g2"].kind = "response"
    /\ ret["g1"].info # Nil /\ ret["g2"].info # Nil
    /\ ret["g1"].info # ret["g2"].info
    /\ DefaultHashPassword(pw["g1"]) \in DOMAIN cache
    /\ << cache[DefaultHashPassword(pw["g1"])] >> = ret["g2"].info

\* C16 (FairSpec): no call hangs.  Under fair scheduling, with every request
\* that is out answered by a response or an error, every call that has
\* started returns: with a result or with an error, whatever the other
\* caller and the sweep do.
C16_EveryCallReturns ==
    \A i \in AllGoroutines :
      ( pc[i] \notin { "idle", "done" } )
        ~> ( pc[i] = "done" /\ ( ret[i].info # Nil \/ ret[i].err # Nil ) )

\* both callers are waiting for the write lock while the sweep holds it
C16_WritersWaitForSweep ==
    /\ cleaner = "cleaning"
    /\ pc["g1"] = "addToCache"
    /\ pc["g2"] = "addToCache"

\* C17 (StrengthSpec): the password "123" gets a score of at most 10 and the
\* category weak.
C17_Digits123AtMostTen ==
    ( strengthPassword = Pw123 /\ strengthResponse # NoResponse )
    => ( strengthResponse.Score <= 10 /\ strengthResponse.Strength = "weak" )

\* C18 (StrengthSpec): the documented passwords get the documented
\* categories: "password" weak with the common-pattern warning; "Password1",
\* "Password1!" and "MyPassword1!" medium; "MyStr0ng!Pass" and the long
\* password of many characters strong; "MyV3ryStr0ng!P@ssw0rdWithNumbers123"
\* very_strong.
C18_DocumentedCategories ==
    strengthResponse # NoResponse =>
      /\ strengthPassword = PwPassword =>
           /\ strengthResponse.Strength = "weak"
           /\ \E k \in 1..Len(strengthResponse.Feedback.Warnings) :
                strengthResponse.Feedback.Warnings[k] = "Password contains common patterns"
      /\ strengthPassword \in { PwPassword1, PwPassword1Bang, PwMyPassword1Bang } =>
           strengthResponse.Strength = "medium"
      /\ strengthPassword \in { PwMyStr0ngPass, PwLongVariety } =>
           strengthResponse.Strength = "strong"
      /\ strengthPassword = PwVeryStrong =>
           strengthResponse.Strength = "very_strong"

\* the very strong example has been evaluated
C18_VeryStrongEvaluated ==
    /\ strengthPassword = PwVeryStrong
    /\ strengthResponse # NoResponse
    /\ strengthResponse.Strength = "very_strong"
    /\ strengthResponse.Score >= 80

\* C19 (StrengthSpec): the repeated-pattern finding, as the response shows it
\* by its warning, is there exactly when for some block length L from 2 to
\* half the length and some position the L characters from that position
\* are followed at once by the same L characters; it is there for "abcabc"
\* and "121212" and not for "abcdef".
C19_RepeatedBlockExactly ==
    strengthResponse # NoResponse =>
      LET p == strengthPassword
          flagged == \E k \in 1..Len(strengthResponse.Feedback.Warnings) :
                       strengthResponse.Feedback.Warnings[k]
                         = "Password contains repeated patterns"
          repeated == \E L \in 2..(Len(p) \div 2) :
                        \E i \in 1..(Len(p) - 2 * L + 1) :
                          \A k \in 0..(L - 1) : p[i + k] = p[i + L + k]
      IN  /\ flagged <=> repeated
          /\ p \in { PwAbcabc, Pw121212 } => flagged
          /\ p = PwAbcdef => ~flagged

\* "abcabc" has been evaluated and carries the warning
C19_AbcabcFlagged ==
    /\ strengthPassword = PwAbcabc
    /\ strengthResponse # NoResponse
    /\ \E k \in 1..Len(strengthResponse.Feedback.Warnings) :
         strengthResponse.Feedback.Warnings[k] = "Password contains repeated patterns"

C21_ScoreIsClampedSum ==
    strengthResponse # NoResponse =>
      LET p == strengthPassword
          L == IF Len(p) >= 16 THEN 25 ELSE IF Len(p) >= 12 THEN 20
               ELSE IF Len(p) >= 8 THEN 15 ELSE IF Len(p) >= 6 THEN 10
               ELSE IF Len(p) >= 4 THEN 5 ELSE 0
          V == 6 * Cardinality({ c \in { "upper", "lower", "digit", "symbol" } :
                   \/ c = "upper" /\ hasUpper(p)
                   \/ c = "lower" /\ hasLower(p)
                   \/ c = "digit" /\ hasNumber(p)
                   \/ c = "symbol" /\ hasSpecial(p) })
          P == (IF HasCommonPattern(p) THEN 20 ELSE 0)
                 + (IF hasSequentialChars(p) THEN 10 ELSE 0)
                 + (IF hasRepeatedPatterns(p) THEN 15 ELSE 0)
          E == calculateEntropyScore(p, conversion)
          rest == L + V - P
      IN  /\ P <= 45
          /\ strengthResponse.Score
               = ( IF E < 0 - rest THEN 0          \* L + V - P + E < 0
                   ELSE IF E > 100 - rest THEN 100 \* L + V - P + E > 100
                   ELSE rest + E )

\* C22 (StrengthSpec): the entropy score component of an evaluated password
\* is an integer from 0 to 50, for the empty password and for passwords with
\* no character of any of the four classes as well.
C22_EntropyScoreInRange ==
    strengthResponse # NoResponse =>
      calculateEntropyScore(strengthPassword, conversion) \in 0..50

\* C23 (StrengthSpec): feedback ordering.  The warnings are one fixed message
\* for each pattern finding that holds, in the order common, sequential,
\* repeated.  The suggestions are the pattern suggestions in that same order,
\* then one for each missing class in the order upper, lower, digit, symbol,
\* then the length suggestion exactly when the length is below 12, then the
\* passphrase suggestion exactly when the score is below 40, then the
\* mix-classes suggestion exactly when the score is below 60.
C23_FeedbackOrdering ==
    strengthResponse # NoResponse =>
      LET p == strengthPassword
          score == strengthResponse.Score
          Pick(list) ==
              LET kept == SelectSeq(list, LAMBDA e : e.on)
              IN  [ k \in 1..Len(kept) |-> kept[k].msg ]
          common == HasCommonPattern(p)
          sequential == hasSequentialChars(p)
          repeated == hasRepeatedPatterns(p)
      IN  /\ strengthResponse.Feedback.Warnings = Pick(<<
               [ on |-> common,     msg |-> "Password contains common patterns" ],
               [ on |-> sequential, msg |-> "Password contains sequential characters" ],
               [ on |-> repeated,   msg |-> "Password contains repeated patterns" ] >>)
          /\ strengthResponse.Feedback.Suggestions = Pick(<<
               [ on |-> common,     msg |-> "Use a more unique combination of characters" ],
               [ on |-> sequential, msg |-> "Avoid keyboard patterns and sequential characters" ],
               [ on |-> repeated,   msg |-> "Avoid repeating character sequences" ],
               [ on |-> ~hasUpper(p),   msg |-> "Add uppercase letters" ],
               [ on |-> ~hasLower(p),   msg |-> "Add lowercase letters" ],
               [ on |-> ~hasNumber(p),  msg |-> "Add numbers" ],
               [ on |-> ~hasSpecial(p), msg |-> "Add special characters" ],
               [ on |-> Len(p) < 12, msg |-> "Use a longer password (12+ characters)" ],
               [ on |-> score < 40,  msg |-> "Consider using a passphrase with multiple words" ],
               [ on |-> score < 60,  msg |-> "Mix different character types more thoroughly" ] >>)

\* a short password with all three findings and three classes missing has
\* been evaluated: three warnings and nine suggestions
C23_AllFindingsShortPassword ==
    /\ strengthResponse # NoResponse
    /\ Len(strengthPassword) < 12
    /\ Len(strengthResponse.Feedback.Warnings) = 3
    /\ Len(strengthResponse.Feedback.Suggestions) = 9
    /\ strengthResponse.Feedback.Suggestions[7] = "Use a longer password (12+ characters)"

\* C24 (StrengthSpec): sequential-run detection.  The sequential finding, as
\* the response shows it by its warning, is there for every password whose
\* lower-cased form holds four neighbouring characters that go upwards in the
\* alphabet, in the digits or along a keyboard row ("abcd", "1234", "qwer"),
\* and a run that goes downwards ("fedcba", "654321") does not bring it.
C24_AscendingRunOfFourFlagged ==
    strengthResponse # NoResponse =>
      LET p == strengthPassword
          lower == ToLower(p)
          flagged == \E k \in 1..Len(strengthResponse.Feedback.Warnings) :
                       strengthResponse.Feedback.Warnings[k]
                         = "Password contains sequential characters"
          rows == { Lowers, DigitChars,
                    <<"1","2","3","4","5","6","7","8","9","0">>,
                    <<"q","w","e","r","t","y","u","i","o","p">>,
                    <<"a","s","d","f","g","h","j","k","l">>,
                    <<"z","x","c","v","b","n","m">> }
          ascending == \E i \in 1..(Len(lower) - 3) :
                         \E row \in rows : Contains(row, SubSeq(lower, i, i + 3))
      IN  /\ ascending => flagged
          /\ p \in { PwFedcba, Pw654321 } => ~flagged

\* C25 (StrengthSpec): a password with three identical characters in a row
\* ("aaa", "111") has the repeated-block finding whatever the block check
\* says: it carries the repeated-pattern warning and the penalty of 15, and
\* it carries the common-pattern warning and the penalty of 20 only when it
\* also holds one of the listed weak tokens.
C25_TripleIsRepeatedBlock ==
    strengthResponse # NoResponse =>
      LET p == strengthPassword
          warnings == strengthResponse.Feedback.Warnings
          Warned(msg) == \E k \in 1..Len(warnings) : warnings[k] = msg
          triple == \E i \in 1..(Len(p) - 2) : p[i] = p[i + 1] /\ p[i] = p[i + 2]
          token == \E pattern \in keyboardPatterns : Contains(ToLower(p), pattern)
      IN  triple =>
            /\ Warned("Password contains repeated patterns")
            /\ Warned("Password contains common patterns") <=> token
            /\ calculatePatternPenalty(p)
                 = 15 + (IF token THEN 20 ELSE 0)
                      + (IF hasSequentialChars(p) THEN 10 ELSE 0)

\* C26 (HandlerSpec): in the combined password-check handler a breach error
\* never blocks or alters the strength result.  Whenever the handler answers
\* a request whose strength was computed, the status is 200 and strength,
\* score and requirements are those CheckStrength returned; when
\* CheckPasswordBreach failed, the feedback is unchanged as well and there is
\* no breach data; the breach warning and the breach suggestion are appended
\* exactly when the call succeeded with found = true, and nothing else is
\* ever added to the feedback.
C26_BreachErrorNeverBlocks ==
    [][ ( handled = NoHandled /\ handled' # NoHandled /\ strengthResponse # NoResponse )
        => LET r == ret[HandlerGoroutine]
               found == r.err = Nil /\ r.info # Nil /\ r.info[1].Found
               body == handled'.body
           IN  /\ handled'.status = 200
               /\ body.Strength = strengthResponse.Strength
               /\ body.Score = strengthResponse.Score
               /\ body.Requirements = strengthResponse.Requirements
               /\ r.err # Nil =>
                    /\ body.Feedback = strengthResponse.Feedback
                    /\ body.BreachData = Nil
               /\ body.Feedback.Warnings =
                    IF found
                      THEN Append(strengthResponse.Feedback.Warnings,
                                  "Password has appeared in data breaches")
                      ELSE strengthResponse.Feedback.Warnings
               /\ body.Feedback.Suggestions =
                    IF found
                      THEN Append(strengthResponse.Feedback.Suggestions,
                                  "Choose a password that hasn't been compromised")
                      ELSE strengthResponse.Feedback.Suggestions
      ]_vars

\* a request whose breach check failed has been answered with 200, the
\* strength result and no breach data
C26_AnsweredAfterBreachError ==
    /\ handled.status = 200
    /\ handled.body.BreachData = Nil
    /\ handled.body.Score = strengthResponse.Score
    /\ prev[HandlerGoroutine] # << >>
    /\ prev[HandlerGoroutine][1].pw = strengthPassword
    /\ prev[HandlerGoroutine][1].info = Nil

\* C27 (Spec): the cache lock is never held across a network call.  A
\* request goroutine is a reader exactly between the RLock and the RUnlock of
\* its lookup and the writer exactly between the Lock and the Unlock of its
\* store; the sweep is the writer exactly during its clear; so a goroutine
\* whose request is being built or is out holds nothing.  Whenever every
\* goroutine is outside these sections and the sweep is not clearing, however
\* many requests are out, the lock is free: the sweep, a waiting lookup and
\* a waiting store can each take it.  Some step is possible in every state.
C27_NoLockAcrossNetworkCall ==
    LET G == env.goroutines
        reading == { i \in G : pc[i] = "cachedResult" }
        storing == { i \in G : pc[i] = "stored" }
        network == { i \in G : pc[i] \in { "callHIBPAPI", "awaitResponse" } }
    IN  /\ cacheMutex.readers = reading
        /\ cacheMutex.writer \in storing \cup { "cleaner", "none" }
        /\ \A i \in storing : cacheMutex.writer = i
        /\ cacheMutex.writer = "cleaner" <=> cleaner = "cleaning"
        /\ \A i \in network : i \notin cacheMutex.readers /\ cacheMutex.writer # i
        /\ ( reading = {} /\ storing = {} /\ cleaner = "ticker" ) =>
             /\ ENABLED cleanCacheLock
             /\ \A j \in G : pc[j] = "getFromCache" => ENABLED getFromCacheRLock(j)
             /\ \A j \in G : pc[j] = "addToCache" => ENABLED addToCacheLock(j)
        /\ \/ ENABLED cleanCacheLock
           \/ ENABLED cleanCacheUnlock
           \/ \E i \in G :
                \/ ENABLED getFromCacheRLock(i)
                \/ ENABLED getFromCacheRUnlock(i)
                \/ ENABLED callHIBPAPISend(i)
                \/ ENABLED callHIBPAPIReceive(i)
                \/ ENABLED addToCacheLock(i)
                \/ ENABLED addToCacheUnlock(i)
                \/ ENABLED Return(i)
                \/ ENABLED CheckPasswordBreach(i)

\* one request is out while the other goroutine is storing its result
C27_StoreWhileRequestOut ==
    /\ pc["g1"] = "awaitResponse"
    /\ pc["g2"] = "stored"
    /\ cacheMutex.writer = "g2"

\* C28 (Spec): the cache contents.  Every key of the cache is the full
\* 40-character digest of a password that was asked about.  An entry for a
\* digest d appears or changes only when a lookup for d has got a successful
\* response, and it is then exactly the result of matching that response
\* against d's own suffix.  A lookup takes from the cache the entry under
\* its own full digest or nothing, so it never gets what was computed for
\* another digest, not even one of the same five-character prefix.
C28_CacheHoldsOwnResults ==
    [][ /\ \A d \in DOMAIN cache' :
             /\ Len(d) = 40
             /\ d \in KnownDigests
             /\ ( d \notin DOMAIN cache \/ cache'[d] # cache[d] ) =>
                  \E i \in env.goroutines :
                    /\ pc[i] = "addToCache"
                    /\ pc'[i] = "stored"
                    /\ HashPassword(pw[i]) = d
                    /\ resp[i].kind = "response"
                    /\ resp[i].status = StatusOK
                    /\ ~resp[i].readErr
                    /\ ret[i].err = Nil
                    /\ cache'[d] = ret[i].info[1]
                    /\ \E day \in 1..today : cache'[d] = BuildResult(resp[i].body, d, day)
        /\ \A i \in env.goroutines :
             ( pc[i] = "getFromCache" /\ pc'[i] = "cachedResult" ) =>
               LET d == HashPassword(pw[i])
               IN  ret'[i].info = IF d \in DOMAIN cache THEN Ptr(cache[d]) ELSE Nil
      ]_vars

\* the cache holds different results for the two digests of one prefix, and
\* a lookup has just taken its own
C28_HitBesideSiblingEntry ==
    LET d1 == HashPassword(Secret1263)
        d2 == HashPassword(Secret2709)
    IN  /\ SubSeq(d1, 1, 5) = SubSeq(d2, 1, 5)
        /\ DOMAIN cache = { d1, d2 }
        /\ cache[d1] # cache[d2]
        /\ pc["g1"] = "cachedResult"
        /\ ret["g1"].info = Ptr(cache[HashPassword(pw["g1"])])

\* C29 (StrengthSpec): a response of category very_strong is given only to a
\* password of at least 16 characters that has all four character classes
\* and no pattern finding; and no score exceeds 25 + 24 + the entropy score
\* of the full character set, which is 81.
C29_VeryStrongOnlyIfComplete ==
    strengthResponse # NoResponse =>
      LET p == strengthPassword
      IN  /\ strengthResponse.Strength = "very_strong" =>
               /\ Len(p) >= 16
               /\ hasUpper(p) /\ hasLower(p) /\ hasNumber(p) /\ hasSpecial(p)
               /\ ~HasCommonPattern(p)
               /\ ~hasSequentialChars(p)
               /\ ~hasRepeatedPatterns(p)
          /\ strengthResponse.Score <= 25 + 24 + NormalizedEntropy(26 + 26 + 10 + 32)

\* C30 (UiSpec): UI freshness.  Once the input's timer and every debounce
\* timer have run and every request has been answered, the strength meter
\* and the breach alert show nothing that belongs to another password than
\* the one in the field, and they are reset and hidden when the field is
\* empty or holds fewer than 8 characters.
C30_DisplayFreshWhenQuiet ==
    ( /\ inputTimer = Nil
      /\ strengthDebounce.pending = {} /\ strengthDebounce.inflight = {}
      /\ breachDebounce.pending = {} /\ breachDebounce.inflight = {} )
    => /\ meter # MeterReset => meter.password = uiValue
       /\ alert # AlertHidden => alert.password = uiValue
       /\ Len(uiValue) < 8 => ( meter = MeterReset /\ alert = AlertHidden )

==========================================================================
